---- MODULE Spec2Model ----
(***************************************************************************)
(* glenn2vcf (src/main.cpp): a reference path of a sequence graph is       *)
(* traced into coordinates, a per-base call file is parsed into a call     *)
(* table, and two passes over the graph's nodes emit VCF records: one for  *)
(* non-reference nodes anchored to the reference on both sides, one for    *)
(* the bases of reference nodes that carry alt calls.                      *)
(*                                                                         *)
(* The model follows main() statement by statement.  Inputs (the graph's   *)
(* node sequences, the reference path's mappings, the call file's lines,   *)
(* the neighbours the graph reports for a node) are drawn from bounded     *)
(* sets.  assert() failures, uncaught exceptions and crashes end the run   *)
(* in pc = "abort".  A read or write outside a vector's bounds is          *)
(* undefined behaviour: the model lets it crash or yield any value of a    *)
(* bounded set of garbage values.                                          *)
(***************************************************************************)
EXTENDS Integers, Sequences, FiniteSets, TLC

(***************************************************************************)
(* Bounds of the model.                                                    *)
(***************************************************************************)
\* Number of nodes of the graph; node ids are 1..NumNodes.
NumNodes == 4
\* Largest number of mappings of the reference path (full pipeline).
MaxPathLen == 3
\* Largest number of mappings of the reference path (tracer alone).
MaxTracePathLen == 4
\* Largest number of lines of the call file (full pipeline).
MaxLines == 2
\* Largest number of lines of the call file (call table builder alone).
MaxParseLines == 2
\* Largest value of a line's offset field.
MaxOffset == 2
\* Largest number of comma separated tokens of a call string.
MaxCallTokens == 3
\* Largest number of neighbours the graph reports on one side of a node.
MaxDegree == 2
\* Largest number of nodes of the graph that have two bases (the others have one).
MaxLongNodes == 1
\* Number of nodes the reference path may visit (full pipeline): 1..NumPathNodes.
NumPathNodes == 3
\* The nodes the reference path may visit in reverse (full pipeline): 1..NumReversible.
NumReversible == 1
\* The pipeline run for the point variants: the nodes the reference path may
\* visit, its largest number of mappings, the degree of the other nodes.
NumPointNodes == 2
MaxPointPathLen == 2
MaxPointDegree == 0

(***************************************************************************)
(* Program constants.                                                      *)
(***************************************************************************)
MAX_ALTS == 2

\* size_t arithmetic wraps.  The build's size_t has 64 bits; TLC's integers
\* have 32, so the model wraps at 2^30, far above every coordinate, offset
\* and length the bounded inputs reach.
SizeModulus == 2^30
SIZE_MAX == SizeModulus - 1

Nodes == 1..NumNodes
Bases == {"A", "C", "G", "T"}

(***************************************************************************)
(* Strings of the call file.  A call string is modelled by the sequence of *)
(* its comma separated parts; a part is one of these tokens.  TokenOrder   *)
(* lists them by operator< of std::string (ASCII: '-' 45, '.' 46, 'A' 65,  *)
(* 'C' 67, 'G' 71, 'T' 84; a proper prefix sorts first).                   *)
(***************************************************************************)
TokenOrder == <<"", "-", ".", "A", "AC", "C", "G", "T">>
Tokens == {TokenOrder[i] : i \in 1..Len(TokenOrder)}
TokenRank(t) == CHOOSE i \in 1..Len(TokenOrder) : TokenOrder[i] = t

\* Mutant of SetIteration: descending order.
RECURSIVE SetIterationDescending(_)
SetIterationDescending(S) ==
    IF S = {} THEN <<>>
    ELSE LET first == CHOOSE t \in S : \A u \in S : TokenRank(t) >= TokenRank(u)
         IN  <<first>> \o SetIterationDescending(S \ {first})

\* std::set<std::string> iteration: distinct elements in ascending order.
RECURSIVE SetIteration(_)
SetIteration(S) ==
    IF S = {} THEN <<>>
    ELSE LET first == CHOOSE t \in S : \A u \in S : TokenRank(t) <= TokenRank(u)
         IN  <<first>> \o SetIteration(S \ {first})

\* std::sregex_token_iterator(call.begin(), call.end(), std::regex(","), -1):
\* the parts between the commas; the part after the last comma is left out
\* when it is empty; a string with no comma (the empty string too) is one
\* part.  The parts are collected into a std::set.
SplitCall(call) ==
    LET parts == IF Len(call) > 1 /\ call[Len(call)] = ""
                 THEN SubSeq(call, 1, Len(call) - 1)
                 ELSE call
    IN  {parts[i] : i \in 1..Len(parts)}

(***************************************************************************)
(* struct BaseCall.  alts holds the first numberOfAlts slots of the array. *)
(***************************************************************************)
\* BaseCall(): the default member initialisers.
DefaultBaseCall == [graphBasePresent |-> FALSE, numberOfAlts |-> 0, alts |-> <<>>]

\* Mutant of BaseCallStep: "-" is stored as an alt.
BaseCallStepDashIsAlt(acc, alt) ==
    IF ~acc.ok THEN acc
    ELSE IF alt = "." THEN [acc EXCEPT !.call.graphBasePresent = TRUE]
    ELSE IF Len(alt) # 1 THEN [acc EXCEPT !.ok = FALSE]
    ELSE IF ~(acc.call.numberOfAlts < 2) THEN [acc EXCEPT !.ok = FALSE]
    ELSE [acc EXCEPT !.call.alts = Append(@, alt),
                     !.call.numberOfAlts = @ + 1]

\* The loop body of BaseCall(const std::set<std::string>&) for one element:
\* acc is [ok, call]; ok = FALSE once an assert has failed.
BaseCallStep(acc, alt) ==
    IF ~acc.ok THEN acc
    ELSE IF alt = "-" THEN acc
    ELSE IF alt = "." THEN [acc EXCEPT !.call.graphBasePresent = TRUE]
    ELSE IF Len(alt) # 1 THEN [acc EXCEPT !.ok = FALSE]
    ELSE IF ~(acc.call.numberOfAlts < MAX_ALTS) THEN [acc EXCEPT !.ok = FALSE]
    ELSE [acc EXCEPT !.call.alts = Append(@, alt),
                     !.call.numberOfAlts = @ + 1]

RECURSIVE BaseCallLoop(_, _)
BaseCallLoop(acc, elems) ==
    IF elems = <<>> THEN acc
    ELSE BaseCallLoop(BaseCallStep(acc, Head(elems)), Tail(elems))

\* BaseCall(altSet): [ok |-> no assert failed, call |-> the BaseCall built].
BaseCallFromSet(altSet) ==
    BaseCallLoop([ok |-> TRUE, call |-> DefaultBaseCall], SetIteration(altSet))

(***************************************************************************)
(* vg collaborators.                                                       *)
(***************************************************************************)
Complement(b) ==
    CASE b = "A" -> "T" [] b = "T" -> "A" [] b = "C" -> "G" [] b = "G" -> "C"
      [] OTHER -> b

\* vg::reverse_complement
reverse_complement(s) == [i \in 1..Len(s) |-> Complement(s[Len(s) + 1 - i])]

\* An edit of a mapping: from_length, to_length, and whether sequence() is
\* empty.
Edits == { [from_length |-> 1, to_length |-> 1, sequenceEmpty |-> TRUE],
           [from_length |-> 1, to_length |-> 1, sequenceEmpty |-> FALSE],
           [from_length |-> 1, to_length |-> 0, sequenceEmpty |-> TRUE] }
EditLists == {<<>>} \cup {<<e>> : e \in Edits}

mapping_is_perfect_match(edits) ==
    \A k \in 1..Len(edits) :
        ~(edits[k].from_length # edits[k].to_length \/ ~edits[k].sequenceEmpty)

\* The graphs: node n has one base or two, never none; the bases differ from
\* node to node.
BaseCycle == <<"A", "C", "G", "T">>
NodeSequences(n) == { <<BaseCycle[(n % 4) + 1]>>,
                      <<BaseCycle[((n + 1) % 4) + 1], BaseCycle[((n + 2) % 4) + 1]>> }
Graphs == { g \in [Nodes -> UNION {NodeSequences(n) : n \in Nodes}] :
              /\ \A n \in Nodes : g[n] \in NodeSequences(n)
              /\ Cardinality({n \in Nodes : Len(g[n]) > 1}) <= MaxLongNodes }

(***************************************************************************)
(* Lines of the call file.  ntok is the number of whitespace separated     *)
(* tokens of the line: node id, offset, graph base, call string.           *)
(***************************************************************************)
\* No line: before the first std::getline and after the last.
NoLine == [blank |-> TRUE, ntok |-> 0, nodeId |-> 0, offset |-> 0, call |-> <<>>, eof |-> TRUE]
BlankLine == [blank |-> TRUE, ntok |-> 0, nodeId |-> 0, offset |-> 0, call |-> <<>>, eof |-> FALSE]

\* Call strings of 1..maxTokens comma separated parts over toks; a call string
\* is a token of the line, so it is not empty.
RECURSIVE PartSeqs(_, _)
PartSeqs(toks, n) ==
    IF n = 0 THEN {<<>>}
    ELSE LET shorter == PartSeqs(toks, n - 1)
         IN  shorter \cup {Append(c, t) : c \in {x \in shorter : Len(x) = n - 1}, t \in toks}
CallStrings(toks, maxTokens) == PartSeqs(toks, maxTokens) \ {<<>>, <<"">>}

\* Lines with nt tokens, for nt in ntoks.
LinesOf(ntoks, nodeIds, offsets, calls) ==
    { [blank |-> FALSE, ntok |-> 0, nodeId |-> 0, offset |-> 0, call |-> <<>>, eof |-> FALSE] : x \in {0} \cap ntoks }
    \cup { [blank |-> FALSE, ntok |-> 1, nodeId |-> n, offset |-> 0, call |-> <<>>, eof |-> FALSE] :
              n \in nodeIds, x \in {1} \cap ntoks }
    \cup { [blank |-> FALSE, ntok |-> k, nodeId |-> n, offset |-> o, call |-> <<>>, eof |-> FALSE] :
              n \in nodeIds, o \in offsets, k \in {2, 3} \cap ntoks }
    \cup { [blank |-> FALSE, ntok |-> 4, nodeId |-> n, offset |-> o, call |-> c, eof |-> FALSE] :
              n \in nodeIds, o \in offsets, c \in calls, x \in {4} \cap ntoks }

\* The call file of the full pipeline: calls for a node the reference path
\* may visit and for the node it never visits.
PipelineCalls == {<<".">>, <<"-">>, <<"A">>}
PipelineLines == LinesOf({4}, {2, NumNodes}, 1..MaxOffset, PipelineCalls)

\* The call file of the pipeline run for the point variants: calls for the
\* nodes of the reference path.
PointCalls == {<<".">>, <<"-">>, <<"A">>, <<".", "A">>, <<"A", "T">>, <<"T", "A">>, <<"C", ".", "A">>}
PointLines == LinesOf({4}, 1..NumPointNodes, 1..MaxOffset, PointCalls)

\* The call file of the call table builder on its own.
ParseTokens == {"", "-", ".", "A", "AC", "C", "T"}
ParseLines == {BlankLine}
              \cup LinesOf(0..4, {1}, 0..MaxOffset, CallStrings(ParseTokens, MaxCallTokens))

\* What operator>> leaves in a variable it does not write: an indeterminate
\* value.
IndeterminateOffsets == (0..MaxOffset) \cup {SIZE_MAX}
IndeterminateNodeIds == {0, 1}

NullTraversal == [node |-> 0, backward |-> FALSE]

(***************************************************************************)
(* State.                                                                  *)
(***************************************************************************)
VARIABLES
    pc,                  \* where main() is: start, trace, parse, bubble, snp, done, abort
    sequence,            \* the graph: node id -> node->sequence()
    path,                \* the mappings of the reference path read so far
    referencePositionAndOrientation,  \* node id -> [first, second]
    nodesByReference,    \* reference base -> NodeTraversal
    refSeq,              \* refSeqStream / refSeq
    referenceBase,
    line,                \* the line std::getline read last
    linesRead,           \* how many lines have been read
    callsByNodeOffset,   \* node id -> vector of BaseCall
    parsedFrom,          \* history: <<node id, offset>> -> call string of the line stored there last
    cur,                 \* for_each_node: first pass, the node whose callback ran last
                         \* (0: none yet); second pass, the node the callback is at
    offset,              \* second pass: i, the number of bases of cur looked at
    leftmostInNode,      \* first pass: the callback's leftmostInNode after its scan
    leftmostOutNode,     \* first pass: the callback's leftmostOutNode after its scan
    out,                 \* std::cout: the Variant records the last step wrote
    log                  \* std::cerr: the skip diagnostics the last step wrote

vars == <<pc, sequence, path, referencePositionAndOrientation, nodesByReference,
          refSeq, referenceBase, line, linesRead, callsByNodeOffset, parsedFrom,
          cur, offset, leftmostInNode, leftmostOutNode, out, log>>

synthVars == <<cur, offset, leftmostInNode, leftmostOutNode, out, log>>
parseVars == <<line, linesRead, callsByNodeOffset, parsedFrom>>
traceVars == <<path, referencePositionAndOrientation, nodesByReference, refSeq, referenceBase>>

Init ==
    /\ pc = "start"
    /\ sequence \in Graphs
    /\ path = <<>>
    /\ referencePositionAndOrientation = <<>>
    /\ nodesByReference = <<>>
    /\ refSeq = <<>>
    /\ referenceBase = 0
    /\ line = NoLine
    /\ linesRead = 0
    /\ callsByNodeOffset = <<>>
    /\ parsedFrom = <<>>
    /\ cur = 0
    /\ offset = 0
    /\ leftmostInNode = NullTraversal
    /\ leftmostOutNode = NullTraversal
    /\ out = <<>>
    /\ log = {}

\* std::map operator[] on a key: the value, inserted when absent.
MapPut(m, k, v) == [x \in (DOMAIN m) \cup {k} |-> IF x = k THEN v ELSE m[x]]

(***************************************************************************)
(* Reference Tracer.                                                       *)
(***************************************************************************)
\* assert(vg.paths.has_path(refPathName))
CheckRefPath ==
    /\ pc = "start"
    /\ \E has_path \in BOOLEAN :
        pc' = IF has_path THEN "trace" ELSE "abort"
    /\ UNCHANGED <<sequence, traceVars, parseVars, synthVars>>

\* Mutant of NextReferenceBase: every node counted as one base.
NextReferenceBaseOneBase(base, id) == (base + 1) % SizeModulus

\* referenceBase += sequence.size()
NextReferenceBase(base, id) == (base + Len(sequence[id])) % SizeModulus

\* Mutant of FirstPlacement: every visit places the node anew.
PlacementEveryVisit(id, is_reverse) ==
    MapPut(referencePositionAndOrientation, id,
           [first |-> referenceBase, second |-> is_reverse])

\* if(!referencePositionAndOrientation.count(id)) referencePositionAndOrientation[id] = ...
FirstPlacement(id, is_reverse) ==
    IF id \notin DOMAIN referencePositionAndOrientation
    THEN MapPut(referencePositionAndOrientation, id,
                [first |-> referenceBase, second |-> is_reverse])
    ELSE referencePositionAndOrientation

\* Mutant of IndexVisit: only the first visit to a node is indexed.
IndexFirstVisit(id, is_reverse) ==
    IF id \in DOMAIN referencePositionAndOrientation THEN nodesByReference
    ELSE MapPut(nodesByReference, referenceBase, [node |-> id, backward |-> is_reverse])

\* nodesByReference[referenceBase] = vg::NodeTraversal(node, is_reverse)
IndexVisit(id, is_reverse) ==
    MapPut(nodesByReference, referenceBase, [node |-> id, backward |-> is_reverse])

\* One iteration of the loop over the path's mappings.
TraceMapping(mapping) ==
    LET id == mapping.node_id
    IN
    IF ~mapping_is_perfect_match(mapping.edit)
    THEN /\ pc' = "abort"
         /\ UNCHANGED <<referencePositionAndOrientation, refSeq, nodesByReference, referenceBase>>
    ELSE /\ pc' = pc
         /\ referencePositionAndOrientation' = FirstPlacement(id, mapping.is_reverse)
         /\ refSeq' = refSeq \o sequence[id]
         /\ nodesByReference' = IndexVisit(id, mapping.is_reverse)
         /\ referenceBase' = NextReferenceBase(referenceBase, id)

\* The path's next mapping visits one of pathNodes; it may be reverse on one
\* of reversible.
TraceStep(pathNodes, reversible, maxLen) ==
    /\ pc = "trace"
    /\ Len(path) < maxLen
    /\ \E id \in pathNodes, rev \in BOOLEAN, edits \in EditLists :
        LET mapping == [node_id |-> id, is_reverse |-> rev, edit |-> edits]
        IN  /\ rev => id \in reversible
            /\ path' = Append(path, [node_id |-> id, is_reverse |-> rev])
            /\ TraceMapping(mapping)
    /\ UNCHANGED <<sequence, parseVars, synthVars>>

\* The path has no more mappings.
TraceEnd ==
    /\ pc = "trace"
    /\ pc' = "parse"
    /\ UNCHANGED <<sequence, traceVars, parseVars, synthVars>>

(***************************************************************************)
(* Call Table Builder.                                                     *)
(***************************************************************************)
\* std::vector::resize(n): shrink, or grow with BaseCall().
Resize(vec, n) ==
    [i \in 1..n |-> IF i <= Len(vec) THEN vec[i] ELSE DefaultBaseCall]

\* std::vector::max_size() for BaseCall, which has 4 bytes.
VectorMaxSize == SizeModulus \div 4

\* The history of a node's vector after a resize to n elements: what the
\* resize dropped has no source any more.
Forget(from, id, n) ==
    [key \in {k \in DOMAIN from : k[1] # id \/ k[2] < n} |-> from[key]]

\* callsByNodeOffset[id]: the vector, inserted empty when absent.
CallsAt(calls, id) == IF id \in DOMAIN calls THEN calls[id] ELSE <<>>

\* tokens >> nodeId: the stream holds a first token, or extraction fails at
\* the end of the stream before anything is stored.
NodeIdsRead(ln) == IF ln.ntok >= 1 THEN {ln.nodeId} ELSE IndeterminateNodeIds

\* tokens >> offset: with no second token the stream has failed or is at its
\* end, and offset keeps the indeterminate value it was declared with.
OffsetsRead(ln) == IF ln.ntok >= 2 THEN {ln.offset} ELSE IndeterminateOffsets

\* Mutant of CallRead: a missing call string reads as "-".
CallReadDash(ln) == IF ln.ntok >= 4 THEN ln.call ELSE <<"-">>

\* tokens >> call: call stays empty when there is no fourth token.
CallRead(ln) == IF ln.ntok >= 4 THEN ln.call ELSE <<"">>

\* The body of the while loop for a line that is not blank.
ParseTokensOfLine(ln, nodeId, offsetRead) ==
    LET off == (offsetRead - 1) % SizeModulus
        callCharacters == SplitCall(CallRead(ln))
        vec0 == CallsAt(callsByNodeOffset, nodeId)
        newSize == (off + 1) % SizeModulus
        grows == Len(vec0) <= off
        built == BaseCallFromSet(callCharacters)
    IN
    IF grows /\ newSize > VectorMaxSize
    THEN \* resize throws std::length_error
         /\ pc' = "abort"
         /\ callsByNodeOffset' = MapPut(callsByNodeOffset, nodeId, vec0)
         /\ UNCHANGED parsedFrom
    ELSE LET vec1 == IF grows THEN Resize(vec0, newSize) ELSE vec0
         IN
         IF ~built.ok
         THEN \* an assert of the BaseCall constructor fails
              /\ pc' = "abort"
              /\ callsByNodeOffset' = MapPut(callsByNodeOffset, nodeId, vec1)
              /\ parsedFrom' = Forget(parsedFrom, nodeId, Len(vec1))
         ELSE IF off < Len(vec1)
         THEN /\ pc' = pc
              /\ callsByNodeOffset' =
                     MapPut(callsByNodeOffset, nodeId, [vec1 EXCEPT ![off + 1] = built.call])
              /\ parsedFrom' = MapPut(Forget(parsedFrom, nodeId, Len(vec1)),
                                      <<nodeId, off>>, ln.call)
         ELSE \* vec1[off] is outside the vector: the store crashes or lands
              \* outside the table
              /\ \E crash \in BOOLEAN : pc' = IF crash THEN "abort" ELSE pc
              /\ callsByNodeOffset' = MapPut(callsByNodeOffset, nodeId, vec1)
              /\ parsedFrom' = Forget(parsedFrom, nodeId, Len(vec1))

ParseLine(lineSet, maxLines) ==
    /\ pc = "parse"
    /\ linesRead < maxLines
    /\ \E ln \in lineSet :
        /\ line' = ln
        /\ linesRead' = linesRead + 1
        /\ IF ln.blank
           THEN UNCHANGED <<pc, callsByNodeOffset, parsedFrom>>
           ELSE \E nodeId \in NodeIdsRead(ln), offsetRead \in OffsetsRead(ln) :
                    ParseTokensOfLine(ln, nodeId, offsetRead)
    /\ UNCHANGED <<sequence, traceVars, synthVars>>

\* std::getline finds no further line.
ParseEnd ==
    /\ pc = "parse"
    /\ pc' = "bubble"
    /\ line' = NoLine
    /\ cur' = 0
    /\ UNCHANGED <<sequence, traceVars, linesRead, callsByNodeOffset, parsedFrom,
                   offset, leftmostInNode, leftmostOutNode, out, log>>

(***************************************************************************)
(* Bubble Variant Synthesizer: the first for_each_node callback.           *)
(***************************************************************************)
Traversals == {[node |-> n, backward |-> b] : n \in Nodes, b \in BOOLEAN}

\* What vg.nodes_prev / vg.nodes_next may fill a vector with.
RECURSIVE NeighbourVectors(_)
NeighbourVectors(maxDegree) ==
    IF maxDegree = 0 THEN {<<>>}
    ELSE LET shorter == NeighbourVectors(maxDegree - 1)
         IN  shorter \cup {Append(v, t) : v \in {x \in shorter : Len(x) = maxDegree - 1},
                                          t \in Traversals}

\* The body of the loop over prevNodes (and of the one over nextNodes):
\* acc is [node, position].
LeftmostStep(acc, candidate) ==
    IF candidate.node \notin DOMAIN referencePositionAndOrientation THEN acc
    ELSE IF referencePositionAndOrientation[candidate.node].first < acc.position
    THEN [node |-> candidate,
          position |-> referencePositionAndOrientation[candidate.node].first]
    ELSE acc

RECURSIVE LeftmostLoop(_, _)
LeftmostLoop(acc, candidates) ==
    IF candidates = <<>> THEN acc
    ELSE LeftmostLoop(LeftmostStep(acc, Head(candidates)), Tail(candidates))

\* leftmostInNode (leftmostOutNode) after the loop; NullTraversal stands for
\* a traversal whose node is nullptr.
Leftmost(candidates) ==
    LeftmostLoop([node |-> NullTraversal, position |-> SIZE_MAX], candidates).node

\* nodesByReference.lower_bound(refPosition) under std::greater: the greatest
\* key not greater than refPosition; -1 stands for end().
LowerBound(refPosition) ==
    LET keys == {k \in DOMAIN nodesByReference : k <= refPosition}
    IN  IF keys = {} THEN -1 ELSE CHOOSE k \in keys : \A j \in keys : j <= k

\* The while loop over the reference interval: the reference nodes it looks
\* at, in order; ok = FALSE when the assert on lower_bound fails.
RECURSIVE WalkFrom(_, _)
WalkFrom(refPosition, referenceIntervalPastEnd) ==
    IF ~(refPosition < referenceIntervalPastEnd) THEN [ok |-> TRUE, steps |-> <<>>]
    ELSE LET key == LowerBound(refPosition)
         IN  IF key = -1 THEN [ok |-> FALSE, steps |-> <<>>]
             ELSE LET refNode == nodesByReference[key].node
                      rest == WalkFrom((refPosition + Len(sequence[refNode])) % SizeModulus,
                                       referenceIntervalPastEnd)
                  IN  [ok |-> rest.ok,
                       steps |-> <<[refPosition |-> refPosition, key |-> key,
                                    refNode |-> refNode]>> \o rest.steps]

\* The inner loop of the walk reads callsByNodeOffset[refNode][i] for every
\* base of refNode: is some read outside the vector?
WalkReadsOutside(calls, steps) ==
    \E k \in 1..Len(steps) :
        Len(CallsAt(calls, steps[k].refNode)) < Len(sequence[steps[k].refNode])

\* Do the reads inside the vectors find a base present or with an alt?
WalkFindsReference(calls, steps) ==
    \E k \in 1..Len(steps) :
        LET vec == CallsAt(calls, steps[k].refNode)
        IN  \E i \in 0..(Len(sequence[steps[k].refNode]) - 1) :
                /\ i < Len(vec)
                /\ (vec[i + 1].graphBasePresent \/ vec[i + 1].numberOfAlts > 0)

\* operator[] inserts an empty vector for every node id it is asked for.
RECURSIVE Touch(_, _)
Touch(calls, ids) ==
    IF ids = {} THEN calls
    ELSE LET id == CHOOSE x \in ids : TRUE
         IN  Touch(MapPut(calls, id, CallsAt(calls, id)), ids \ {id})

Outcome(abort, calls, written, logged) ==
    [abort |-> abort, calls |-> calls, out |-> written, log |-> logged]

Diagnostic(node, reason) == [node |-> node, reason |-> reason]

\* Mutant of AltAllele: the node's sequence is always flipped.
AltAlleleAlwaysFlipped(node, altBackward) == reverse_complement(sequence[node])

\* altAllele: the node's sequence, flipped when the node is traversed backward.
AltAllele(node, altBackward) ==
    IF altBackward THEN reverse_complement(sequence[node]) ELSE sequence[node]

\* Mutant of ShiftsLeft: an empty reference allele is left as it is.
ShiftsLeftNever(refAllele) == FALSE

\* if(refAllele.size() == 0)
ShiftsLeft(refAllele) == Len(refAllele) = 0

\* From "Make a Variant" to the output of the record; ok = FALSE when the
\* assert of the left shift fails.  node and offset tell which callback wrote
\* the record, and for which base (-1: for the node).
StructuralVariant(node, altBackward, referenceIntervalStart, referenceIntervalSize, refPathExists) ==
    LET refAllele == SubSeq(refSeq, referenceIntervalStart + 1,
                            referenceIntervalStart + referenceIntervalSize)
        altAllele == AltAllele(node, altBackward)
        shift == ShiftsLeft(refAllele)
        start == IF shift THEN referenceIntervalStart - 1 ELSE referenceIntervalStart
    IN  [ok |-> ~(shift /\ referenceIntervalStart = 0),
         variant |->
            [node |-> node, offset |-> -1,
             position |-> start + 1,
             ref |-> IF shift THEN <<refSeq[start + 1]>> \o refAllele ELSE refAllele,
             alt |-> <<IF shift THEN <<refSeq[start + 1]>> \o altAllele ELSE altAllele>>,
             genotype |-> IF refPathExists THEN "1/0" ELSE "1/1"]]

\* Mutant of ReferenceIntervalStart: the interval starts one base later.
ReferenceIntervalStartSkipsBase(inNode) ==
    (referencePositionAndOrientation[inNode.node].first
        + Len(sequence[inNode.node]) + 1) % SizeModulus

\* referenceIntervalStart = inNodePlacement.first + leftmostInNode.node->sequence().size()
ReferenceIntervalStart(inNode) ==
    (referencePositionAndOrientation[inNode.node].first
        + Len(sequence[inNode.node])) % SizeModulus

\* The callback from the interval bounds on, for anchors that passed the
\* checks: the outcomes it may have.
BubbleCall(node, altBackward, inNode, outNode) ==
    LET outNodePlacement == referencePositionAndOrientation[outNode.node]
        referenceIntervalStart == ReferenceIntervalStart(inNode)
        referenceIntervalPastEnd == outNodePlacement.first
        referenceIntervalSize == referenceIntervalPastEnd - referenceIntervalStart
        vec == CallsAt(callsByNodeOffset, node)
        calls1 == Touch(callsByNodeOffset, {node})
        nodeFullyPresent == \A k \in 1..Len(vec) : vec[k].graphBasePresent
        nodePartlyPresent == \E k \in 1..Len(vec) : vec[k].graphBasePresent
        maxAltsPresent == IF \E k \in 1..Len(vec) : vec[k].numberOfAlts > 0 THEN 1 ELSE 0
        novel == IF maxAltsPresent > 0
                 THEN {Diagnostic(node, "has additional novel alts")} ELSE {}
        walk == WalkFrom(referenceIntervalStart, referenceIntervalPastEnd)
        calls2 == Touch(calls1, {walk.steps[k].refNode : k \in 1..Len(walk.steps)})
        outside == WalkReadsOutside(calls1, walk.steps)
        found == WalkFindsReference(calls1, walk.steps)
    IN
    IF ~(referenceIntervalPastEnd >= referenceIntervalStart)
    THEN {Outcome(TRUE, callsByNodeOffset, <<>>, {})}
    ELSE IF ~nodePartlyPresent
    THEN {Outcome(FALSE, calls1, <<>>, {})}
    ELSE IF ~nodeFullyPresent
    THEN {Outcome(FALSE, calls1, <<>>, {Diagnostic(node, "only partially present")})}
    ELSE IF ~walk.ok
    THEN {Outcome(TRUE, calls2, <<>>, novel)}
    ELSE \* a read outside a vector crashes or yields garbage
         (IF outside THEN {Outcome(TRUE, calls2, <<>>, novel)} ELSE {})
         \cup
         { LET made == StructuralVariant(node, altBackward, referenceIntervalStart,
                                         referenceIntervalSize, refPathExists)
           IN  IF made.ok THEN Outcome(FALSE, calls2, <<made.variant>>, novel)
               ELSE Outcome(TRUE, calls2, <<>>, novel)
           : refPathExists \in IF outside /\ ~found THEN BOOLEAN ELSE {found} }

\* Is the anchor found in the orientation it has in the reference?
ReadsForward(selected) ==
    selected.backward = referencePositionAndOrientation[selected.node].second

\* Mutant of InvertsReference: the two orientations are not compared.
InvertsReferenceNever(readInForward, readOutForward) == FALSE

\* if(readInForward != readOutForward)
InvertsReference(readInForward, readOutForward) == readInForward # readOutForward

\* Mutant of ReadingOrder: the anchors are never swapped.
ReadingOrderNoSwap(readInForward, inSelected, outSelected) ==
    [in |-> inSelected, out |-> outSelected]

\* if(!readInForward) std::swap(leftmostInNode, leftmostOutNode)
ReadingOrder(readInForward, inSelected, outSelected) ==
    IF readInForward THEN [in |-> inSelected, out |-> outSelected]
    ELSE [in |-> outSelected, out |-> inSelected]

\* The callback for a non-reference node, given the anchors its two scans
\* selected.
BubbleOutcomes(node, inSelected, outSelected) ==
    IF inSelected.node = 0 \/ outSelected.node = 0
    THEN {Outcome(FALSE, callsByNodeOffset, <<>>,
                  {Diagnostic(node, "not anchored to reference")})}
    ELSE LET readInForward == ReadsForward(inSelected)
             readOutForward == ReadsForward(outSelected)
         IN
         IF InvertsReference(readInForward, readOutForward)
         THEN {Outcome(FALSE, callsByNodeOffset, <<>>,
                       {Diagnostic(node, "inverts reference path")})}
         ELSE LET altBackward == ~readInForward
                  anchors == ReadingOrder(readInForward, inSelected, outSelected)
              IN
              IF referencePositionAndOrientation[anchors.out.node].first
                     <= referencePositionAndOrientation[anchors.in.node].first
              THEN {Outcome(FALSE, callsByNodeOffset, <<>>,
                            {Diagnostic(node, "allows duplication")})}
              ELSE BubbleCall(node, altBackward, anchors.in, anchors.out)

\* The callback runs for the next node of the graph.  The anchors are the
\* results of the two scans over the vectors the graph reports.
BubbleNode(maxDegree) ==
    /\ pc = "bubble"
    /\ cur < NumNodes
    /\ cur' = cur + 1
    /\ IF (cur + 1) \in DOMAIN referencePositionAndOrientation
       THEN /\ pc' = pc
            /\ leftmostInNode' = NullTraversal
            /\ leftmostOutNode' = NullTraversal
            /\ out' = <<>>
            /\ log' = {}
            /\ UNCHANGED callsByNodeOffset
       ELSE \E inSelected \in {Leftmost(prevNodes) : prevNodes \in NeighbourVectors(maxDegree)},
               outSelected \in {Leftmost(nextNodes) : nextNodes \in NeighbourVectors(maxDegree)} :
              /\ leftmostInNode' = inSelected
              /\ leftmostOutNode' = outSelected
              /\ \E o \in BubbleOutcomes(cur + 1, inSelected, outSelected) :
                    /\ pc' = IF o.abort THEN "abort" ELSE pc
                    /\ callsByNodeOffset' = o.calls
                    /\ out' = o.out
                    /\ log' = o.log
    /\ UNCHANGED <<sequence, traceVars, line, linesRead, parsedFrom, offset>>

\* for_each_node has called back for every node.
BubbleEnd ==
    /\ pc = "bubble"
    /\ cur = NumNodes
    /\ pc' = "snp"
    /\ cur' = 1
    /\ offset' = 0
    /\ leftmostInNode' = NullTraversal
    /\ leftmostOutNode' = NullTraversal
    /\ out' = <<>>
    /\ log' = {}
    /\ UNCHANGED <<sequence, traceVars, parseVars>>

(***************************************************************************)
(* Reference-SNP Synthesizer: the second for_each_node callback.           *)
(***************************************************************************)
\* What a read outside a vector may yield: any flag, any count (-1 and 3
\* stand for the counts outside 0..MAX_ALTS), any letters.
GarbageAlts == <<"A", "C", "G">>
GarbageCalls ==
    { [graphBasePresent |-> p, numberOfAlts |-> n,
       alts |-> IF n <= 0 THEN <<>> ELSE SubSeq(GarbageAlts, 1, n)] :
      p \in BOOLEAN, n \in -1..(MAX_ALTS + 1) }

\* The body of the loop over the bases of a reference node, from the call on.
PointVariant(node, i, call) ==
    LET placement == referencePositionAndOrientation[node]
        referencePosition ==
            IF placement.second
            THEN (placement.first + (Len(sequence[node]) - i - 1)) % SizeModulus
            ELSE (placement.first + i) % SizeModulus
        refAllele == <<refSeq[referencePosition + 1]>>
        altAlleles == [j \in 1..(IF call.numberOfAlts < 0 THEN 0 ELSE call.numberOfAlts) |->
                          IF placement.second THEN reverse_complement(<<call.alts[j]>>)
                          ELSE <<call.alts[j]>>]
        known == call.graphBasePresent \/ call.numberOfAlts = 1 \/ call.numberOfAlts = 2
        genotype == IF call.graphBasePresent THEN "1/0"
                    ELSE IF call.numberOfAlts = 1 THEN "1/1"
                    ELSE "1/2"
    IN  IF call.numberOfAlts = 0 THEN [abort |-> FALSE, out |-> <<>>]
        ELSE IF ~known THEN [abort |-> TRUE, out |-> <<>>]   \* std::runtime_error
        ELSE [abort |-> FALSE,
              out |-> <<[node |-> node, offset |-> i,
                         position |-> referencePosition + 1,
                         ref |-> refAllele, alt |-> altAlleles, genotype |-> genotype]>>]

\* callsByNodeOffset[node][i]: the values the read may yield, and whether it
\* may crash.
SnpOutcomes(node, i) ==
    LET vec == CallsAt(callsByNodeOffset, node)
        inside == i < Len(vec)
    IN  (IF inside THEN {} ELSE {[abort |-> TRUE, out |-> <<>>]})
        \cup {PointVariant(node, i, call) :
                call \in IF inside THEN {vec[i + 1]} ELSE GarbageCalls}

\* The callback returns at once for a node that is not on the reference.
SnpSkipNode ==
    /\ pc = "snp"
    /\ cur \in Nodes
    /\ cur \notin DOMAIN referencePositionAndOrientation
    /\ cur' = cur + 1
    /\ out' = <<>>
    /\ UNCHANGED <<pc, sequence, traceVars, parseVars, offset, leftmostInNode,
                   leftmostOutNode, log>>

\* One iteration of the loop over the bases of a reference node.
SnpBase ==
    /\ pc = "snp"
    /\ cur \in Nodes
    /\ cur \in DOMAIN referencePositionAndOrientation
    /\ offset < Len(sequence[cur])
    /\ \E o \in SnpOutcomes(cur, offset) :
        /\ pc' = IF o.abort THEN "abort" ELSE pc
        /\ out' = o.out
    /\ callsByNodeOffset' = Touch(callsByNodeOffset, {cur})
    /\ offset' = offset + 1
    /\ UNCHANGED <<sequence, traceVars, line, linesRead, parsedFrom, cur,
                   leftmostInNode, leftmostOutNode, log>>

\* The loop over the bases of a reference node ends.
SnpNodeEnd ==
    /\ pc = "snp"
    /\ cur \in Nodes
    /\ cur \in DOMAIN referencePositionAndOrientation
    /\ offset = Len(sequence[cur])
    /\ cur' = cur + 1
    /\ offset' = 0
    /\ out' = <<>>
    /\ UNCHANGED <<pc, sequence, traceVars, parseVars, leftmostInNode, leftmostOutNode, log>>

\* for_each_node has called back for every node; main returns.
SnpEnd ==
    /\ pc = "snp"
    /\ cur = NumNodes + 1
    /\ pc' = "done"
    /\ UNCHANGED <<sequence, traceVars, parseVars, synthVars>>

(***************************************************************************)
(* Specifications.                                                         *)
(***************************************************************************)
\* The whole of main().
Next ==
    \/ CheckRefPath
    \/ TraceStep(1..NumPathNodes, 1..NumReversible, MaxPathLen)
    \/ TraceEnd
    \/ ParseLine(PipelineLines, MaxLines)
    \/ ParseEnd
    \/ BubbleNode(MaxDegree)
    \/ BubbleEnd
    \/ SnpSkipNode
    \/ SnpBase
    \/ SnpNodeEnd
    \/ SnpEnd

Spec == Init /\ [][Next]_vars

\* main() on the inputs that exercise the second callback.
NextPoint ==
    \/ CheckRefPath
    \/ TraceStep(1..NumPointNodes, 1..NumPointNodes, MaxPointPathLen)
    \/ TraceEnd
    \/ ParseLine(PointLines, MaxLines)
    \/ ParseEnd
    \/ BubbleNode(MaxPointDegree)
    \/ BubbleEnd
    \/ SnpSkipNode
    \/ SnpBase
    \/ SnpNodeEnd
    \/ SnpEnd

SpecPoint == Init /\ [][NextPoint]_vars

\* The reference tracer on its own.
NextTrace == CheckRefPath \/ TraceStep(Nodes, Nodes, MaxTracePathLen) \/ TraceEnd

SpecTrace == Init /\ [][NextTrace]_vars

\* The call table builder on its own: the reference path has no mapping.
NextParse == CheckRefPath \/ TraceEnd \/ ParseLine(ParseLines, MaxParseLines) \/ ParseEnd
InitParse == Init /\ \A n \in Nodes : Len(sequence[n]) = 1
SpecParse == InitParse /\ [][NextParse]_vars

(***************************************************************************)
(* Properties of the Reference Tracer.                                     *)
(***************************************************************************)
PathVisitsOnce ==
    \A i, j \in 1..Len(path) : i # j => path[i].node_id # path[j].node_id

RECURSIVE TotalLength(_)
TotalLength(mappings) ==
    IF mappings = <<>> THEN 0
    ELSE Len(sequence[Head(mappings).node_id]) + TotalLength(Tail(mappings))

\* C5: while and after the tracer walks a path, the reference string built so
\* far is as long as the coordinate counter; when the path visits every node
\* at most once, the counter is the total length of the nodes visited, the
\* placements are strictly ascending in path order and the placed intervals
\* [coordinate, coordinate + length) do not overlap.
C5_TraceCoordinates ==
    /\ Len(refSeq) = referenceBase
    /\ (pc \in {"trace", "parse"} /\ PathVisitsOnce) =>
          /\ referenceBase = TotalLength(path)
          /\ DOMAIN referencePositionAndOrientation = {path[i].node_id : i \in 1..Len(path)}
          /\ \A i, j \in 1..Len(path) :
                i < j =>
                  LET a == referencePositionAndOrientation[path[i].node_id].first
                      b == referencePositionAndOrientation[path[j].node_id].first
                  IN  /\ a < b
                      /\ a + Len(sequence[path[i].node_id]) <= b

C5_Witness ==
    /\ pc = "parse"
    /\ Len(path) = 3
    /\ PathVisitsOnce
    /\ referenceBase = 4
    /\ \E i \in 1..Len(path) : path[i].is_reverse

(***************************************************************************)
(* Properties of the Call Table Builder.                                   *)
(***************************************************************************)
\* The tokens of a call string that are neither "." nor "-".
AltTokens(call) == SplitCall(call) \ {".", "-"}

\* A line with all four tokens whose offset is at least 1 has just been read.
WellFormedLineRead ==
    /\ pc \in {"parse", "abort"}
    /\ linesRead > 0
    /\ ~line.blank
    /\ line.ntok = 4
    /\ line.offset >= 1

\* C9: the BaseCall built from a line's call tokens has graphBasePresent
\* exactly when "." is among them, ignores "-", and has every other token as
\* an alt; the run is aborted exactly when some other token is not one
\* character long or there are more than two of them; no BaseCall of the
\* table has more than 2 alts.
C9_BaseCallConstruction ==
    /\ \A id \in DOMAIN callsByNodeOffset :
          \A k \in 1..Len(callsByNodeOffset[id]) :
             /\ callsByNodeOffset[id][k].numberOfAlts <= 2
             /\ callsByNodeOffset[id][k].numberOfAlts = Len(callsByNodeOffset[id][k].alts)
    /\ WellFormedLineRead =>
          LET alts == AltTokens(line.call)
              fatal == Cardinality(alts) > 2 \/ \E t \in alts : Len(t) # 1
          IN  /\ (pc = "abort") <=> fatal
              /\ ~fatal =>
                    LET call == callsByNodeOffset[line.nodeId][line.offset]
                    IN  /\ call.graphBasePresent <=> ("." \in SplitCall(line.call))
                        /\ call.numberOfAlts = Cardinality(alts)
                        /\ {call.alts[j] : j \in 1..Len(call.alts)} = alts
                        /\ Len(call.alts) = Cardinality(alts)

C9_Witness ==
    /\ pc = "parse"
    /\ linesRead = 2
    /\ line.ntok = 4
    /\ line.call = <<"A", ".">>
    /\ line.offset = 1
    /\ callsByNodeOffset[line.nodeId][1] =
          [graphBasePresent |-> TRUE, numberOfAlts |-> 1, alts |-> <<"A">>]

\* A line that is not blank and has fewer than four tokens is read in this
\* step.
MalformedLineStep ==
    /\ linesRead' = linesRead + 1
    /\ ~line'.blank
    /\ line'.ntok < 4

IsResizeOf(after, before) ==
    \A k \in 1..Len(after) :
        after[k] = IF k <= Len(before) THEN before[k] ELSE DefaultBaseCall

BubbleRan ==
    /\ pc \in {"bubble", "abort"}
    /\ cur \in Nodes
    /\ cur \notin DOMAIN referencePositionAndOrientation

Placement(traversal) == referencePositionAndOrientation[traversal.node]

Anchored == leftmostInNode.node # 0 /\ leftmostOutNode.node # 0
ReadInForward == leftmostInNode.backward = Placement(leftmostInNode).second
ReadOutForward == leftmostOutNode.backward = Placement(leftmostOutNode).second

\* The anchors in reading order: swapped when both are read in reverse.
ReadInReverse == ~ReadInForward /\ ~ReadOutForward
InAnchor == IF ReadInReverse THEN leftmostOutNode ELSE leftmostInNode
OutAnchor == IF ReadInReverse THEN leftmostInNode ELSE leftmostOutNode

\* The replaced reference interval [IntervalStart, IntervalPastEnd).
IntervalStart == Placement(InAnchor).first + Len(sequence[InAnchor.node])
IntervalPastEnd == Placement(OutAnchor).first

\* The reference nodes the coordinate index has in the interval.
IntervalKeys ==
    {k \in DOMAIN nodesByReference : IntervalStart <= k /\ k < IntervalPastEnd}

\* Some base of a reference node in the interval has a call that is present
\* or has an alt.
IntervalObserved ==
    \E k \in IntervalKeys :
        LET n == nodesByReference[k].node
            vec == CallsAt(callsByNodeOffset, n)
        IN  \E i \in 1..Len(sequence[n]) :
                i <= Len(vec) /\ (vec[i].graphBasePresent \/ vec[i].numberOfAlts > 0)

\* Every base of a reference node in the interval has a call.
IntervalCalled ==
    \A k \in IntervalKeys :
        Len(CallsAt(callsByNodeOffset, nodesByReference[k].node))
            >= Len(sequence[nodesByReference[k].node])

\* The node is anchored forward on both sides, the out-anchor after the
\* in-anchor.
AnchoredForward ==
    /\ BubbleRan
    /\ Anchored
    /\ ReadInForward
    /\ ReadOutForward
    /\ Placement(leftmostOutNode).first > Placement(leftmostInNode).first

C4_SelectedAnchorsOrdered ==
    (/\ BubbleRan
     /\ Anchored
     /\ Placement(leftmostInNode).first >= Placement(leftmostOutNode).first)
    => (/\ out = <<>>
        /\ \E d \in log : d.node = cur)

\* C4: each scan selects, among the candidates on the reference, one of
\* smallest coordinate; a node whose in-anchor, taken in reading order (the
\* two anchors swapped when both are read in reverse), is not left of its
\* out-anchor yields no Variant and one diagnostic, which names the node.
C4_ReadingOrderSkips ==
    /\ (pc = "bubble" /\ cur = 0) =>
          \A v \in NeighbourVectors(MaxDegree) :
             LET placed == {k \in 1..Len(v) : v[k].node \in DOMAIN referencePositionAndOrientation}
                 s == Leftmost(v)
             IN  IF placed = {} THEN s.node = 0
                 ELSE /\ \E k \in placed : v[k] = s
                      /\ \A k \in placed : Placement(s).first <= Placement(v[k]).first
    /\ (/\ BubbleRan
        /\ Anchored
        /\ Placement(InAnchor).first >= Placement(OutAnchor).first)
       => (/\ pc = "bubble"
           /\ out = <<>>
           /\ Cardinality(log) = 1
           /\ \A d \in log : d.node = cur
                             /\ d.reason \in {"inverts reference path", "allows duplication"})

C4_Witness ==
    /\ BubbleRan
    /\ Anchored
    /\ ReadInReverse
    /\ Placement(leftmostInNode).first < Placement(leftmostOutNode).first
    /\ out = <<>>
    /\ log = {Diagnostic(cur, "allows duplication")}

\* The node's sequence as read along the reference.
NormalisedSequence ==
    IF ReadInReverse THEN reverse_complement(sequence[cur]) ELSE sequence[cur]

\* C6: a structural Variant over an empty interval starting at c has c > 0,
\* position c, the reference base at coordinate c - 1 as reference allele and
\* that base followed by the node's normalised sequence as alt allele; over an
\* interval that is not empty it has position c + 1, the interval's bases as
\* reference allele and the normalised sequence as alt allele.
C6_InsertionLeftShift ==
    (BubbleRan /\ out # <<>>) =>
        LET c == IntervalStart
        IN  /\ Len(out) = 1
            /\ Len(out[1].alt) = 1
            /\ IF IntervalPastEnd = c
               THEN /\ c > 0
                    /\ out[1].position = c
                    /\ out[1].ref = <<refSeq[c]>>
                    /\ out[1].alt[1] = <<refSeq[c]>> \o NormalisedSequence
               ELSE /\ out[1].position = c + 1
                    /\ out[1].ref = SubSeq(refSeq, c + 1, IntervalPastEnd)
                    /\ out[1].alt[1] = NormalisedSequence

C6_Witness ==
    /\ BubbleRan
    /\ out # <<>>
    /\ IntervalPastEnd = IntervalStart
    /\ IntervalStart = 2
    /\ ReadInReverse
    /\ Len(sequence[cur]) = 2

\* C7 as claimed: a structural Variant is "1/0" exactly when some base of a
\* reference node in the replaced interval is called present or has an alt,
\* and "1/1" otherwise.
C7_GenotypeFollowsInterval ==
    (BubbleRan /\ out # <<>>) =>
        out[1].genotype = IF IntervalObserved THEN "1/0" ELSE "1/1"

\* C10: a structural Variant is written only for a node with both anchors
\* read in the same orientation; a scan finds no anchor exactly when no
\* candidate is on the reference; a node with an anchor missing or with
\* anchors read in different orientations gets one diagnostic, which names
\* it, and no record, and its callback leaves the run going and every table
\* the other callbacks read as it was.
C10_State ==
    /\ (pc = "bubble" /\ cur = 0) =>
          \A v \in NeighbourVectors(MaxDegree) :
             (Leftmost(v).node = 0) <=>
                (\A k \in 1..Len(v) : v[k].node \notin DOMAIN referencePositionAndOrientation)
    /\ BubbleRan =>
          /\ out # <<>> => (Anchored /\ ReadInForward = ReadOutForward)
          /\ (~Anchored \/ ReadInForward # ReadOutForward) =>
                /\ pc = "bubble"
                /\ out = <<>>
                /\ Cardinality(log) = 1
                /\ \A d \in log : d.node = cur

C10_SkipLeavesTables ==
    (/\ pc = "bubble"
     /\ cur' = cur + 1
     /\ (~Anchored \/ ReadInForward # ReadOutForward)')
    => /\ pc' = "bubble"
       /\ UNCHANGED <<sequence, traceVars, parseVars>>

C10_UnanchoredSkipped == []C10_State /\ [][C10_SkipLeavesTables]_vars

C10_Witness ==
    /\ BubbleRan
    /\ Anchored
    /\ ReadInForward
    /\ ~ReadOutForward
    /\ Placement(leftmostInNode).first < Placement(leftmostOutNode).first
    /\ log = {Diagnostic(cur, "inverts reference path")}
    /\ Len(CallsAt(callsByNodeOffset, cur)) >= 1
    /\ CallsAt(callsByNodeOffset, cur)[1].graphBasePresent

(***************************************************************************)
(* Properties of the Reference-SNP Synthesizer.                            *)
(***************************************************************************)
\* The second callback has just looked at base offset - 1 of cur.
PointRan ==
    /\ pc \in {"snp", "abort"}
    /\ cur \in DOMAIN referencePositionAndOrientation
    /\ offset > 0

\* A call string with two distinct alt bases and no ".".
TwoAltBases(call) ==
    /\ "." \notin SplitCall(call)
    /\ Cardinality(AltTokens(call)) = 2
    /\ AltTokens(call) \subseteq Bases

IsAltToken(t) == t \notin {".", "-"}

\* A base as the record shows it for cur.
InReferenceOrientation(b) ==
    IF referencePositionAndOrientation[cur].second THEN Complement(b) ELSE b

\* The base looked at holds a BaseCall built from a call string with two alt
\* bases.
TwoAltBasesLookedAt ==
    /\ PointRan
    /\ <<cur, offset - 1>> \in DOMAIN parsedFrom
    /\ TwoAltBases(parsedFrom[<<cur, offset - 1>>])

\* C2 as claimed: the record is "1/2" and has the two alt bases in the order
\* of the call string.
C2_CallStringOrder ==
    TwoAltBasesLookedAt =>
        LET order == SelectSeq(parsedFrom[<<cur, offset - 1>>], IsAltToken)
        IN  /\ Len(out) = 1
            /\ out[1].genotype = "1/2"
            /\ out[1].alt = <<<<InReferenceOrientation(order[1])>>,
                              <<InReferenceOrientation(order[2])>>>>

\* C2: for a base of a reference node whose BaseCall was built from a call
\* string with two distinct alt bases and no ".", the record is "1/2" and has
\* the two bases in ascending order of their characters, whatever their order
\* in the call string, each complemented when the node is reverse in the
\* reference.
C2_AscendingOrder ==
    TwoAltBasesLookedAt =>
        LET alts == AltTokens(parsedFrom[<<cur, offset - 1>>])
            low == CHOOSE a \in alts : \A b \in alts : TokenRank(a) <= TokenRank(b)
            high == CHOOSE a \in alts : a # low
        IN  /\ pc = "snp"
            /\ Len(out) = 1
            /\ out[1].node = cur /\ out[1].offset = offset - 1
            /\ out[1].genotype = "1/2"
            /\ out[1].alt = <<<<InReferenceOrientation(low)>>,
                              <<InReferenceOrientation(high)>>>>

C2_Witness ==
    /\ TwoAltBasesLookedAt
    /\ parsedFrom[<<cur, offset - 1>>] = <<"T", "A">>
    /\ ~referencePositionAndOrientation[cur].second
    /\ Len(out) = 1
    /\ out[1].alt = <<<<"A">>, <<"T">>>>

\* C8 as claimed: a base of a reference node whose call has an alt yields
\* exactly one record, at the base's coordinate plus one, with the reference
\* base there and the genotype the call gives; a base with no alt yields
\* none; the run never ends in the synthesizer.
C8_PointVariants ==
    PointRan =>
        LET i == offset - 1
            vec == CallsAt(callsByNodeOffset, cur)
            call == IF i < Len(vec) THEN vec[i + 1] ELSE DefaultBaseCall
            placement == referencePositionAndOrientation[cur]
            coordinate == IF placement.second
                          THEN placement.first + (Len(sequence[cur]) - i - 1)
                          ELSE placement.first + i
        IN  /\ pc = "snp"
            /\ call.numberOfAlts = 0 => out = <<>>
            /\ call.numberOfAlts > 0 =>
                 /\ Len(out) = 1
                 /\ out[1].position = coordinate + 1
                 /\ out[1].ref = <<refSeq[coordinate + 1]>>
                 /\ out[1].genotype = IF call.graphBasePresent THEN "1/0"
                                      ELSE IF call.numberOfAlts = 1 THEN "1/1"
                                      ELSE "1/2"

(***************************************************************************)
(* Properties of the presence scan.                                        *)
(***************************************************************************)
\* The node's anchors passed the anchoring, orientation and ordering checks.
PassedChecks ==
    /\ BubbleRan
    /\ Anchored
    /\ ReadInForward = ReadOutForward
    /\ Placement(OutAnchor).first > Placement(InAnchor).first

\* Base i (from 1) of the node the first callback ran for is called present.
CalledPresent(i) ==
    /\ i <= Len(CallsAt(callsByNodeOffset, cur))
    /\ CallsAt(callsByNodeOffset, cur)[i].graphBasePresent

\* C11 as claimed: a record is written for a node only when every base of
\* the node is called present; a node that passed the checks with a base
\* called present and a base not called present, a base without a call line
\* included, gets no record and a diagnostic.
C11_EveryBasePresent ==
    BubbleRan =>
        /\ out # <<>> => \A i \in 1..Len(sequence[cur]) : CalledPresent(i)
        /\ (/\ PassedChecks
            /\ \E i \in 1..Len(sequence[cur]) : CalledPresent(i)
            /\ \E i \in 1..Len(sequence[cur]) : ~CalledPresent(i))
           => (out = <<>> /\ \E d \in log : d.node = cur)

(***************************************************************************)
(* Properties of the tracer on a path that visits a node again.            *)
(***************************************************************************)
\* The mapping the tracer has just taken.
LastMapping == path[Len(path)]

\* The tracer takes a perfect-match mapping to a node that has a placement.
RevisitStep ==
    /\ pc = "trace"
    /\ pc' = "trace"
    /\ Len(path') = Len(path) + 1
    /\ LastMapping'.node_id \in DOMAIN referencePositionAndOrientation

\* The tracer takes a perfect-match mapping to a node that has no placement.
FirstVisitStep ==
    /\ pc = "trace"
    /\ pc' = "trace"
    /\ Len(path') = Len(path) + 1
    /\ LastMapping'.node_id \notin DOMAIN referencePositionAndOrientation

\* What every visit does: the node's sequence is appended, the node is
\* indexed at the counter, and the counter advances by the node's length.
VisitAdvances ==
    LET id == LastMapping'.node_id
    IN  /\ refSeq' = refSeq \o sequence[id]
        /\ DOMAIN nodesByReference' = DOMAIN nodesByReference \cup {referenceBase}
        /\ nodesByReference'[referenceBase] =
               [node |-> id, backward |-> LastMapping'.is_reverse]
        /\ \A k \in DOMAIN nodesByReference \ {referenceBase} :
               nodesByReference'[k] = nodesByReference[k]
        /\ referenceBase' = referenceBase + Len(sequence[id])

\* C12 as claimed: a visit to a node that has a placement changes none of the
\* tracer's outputs.
C12_RevisitChangesNothing ==
    [][RevisitStep =>
          UNCHANGED <<referencePositionAndOrientation, refSeq, nodesByReference,
                      referenceBase>>]_vars

\* C12: a visit to a node that has a placement leaves every placement as it
\* was, and only the first visit to a node records one (the counter, the
\* mapping's orientation); but every visit, first or not, appends the node's
\* sequence to the reference string, adds a coordinate-index entry at the
\* counter and advances the counter by the node's length.
C12_RevisitKeepsPlacement ==
    [][/\ RevisitStep =>
            /\ UNCHANGED referencePositionAndOrientation
            /\ VisitAdvances
       /\ FirstVisitStep =>
            /\ DOMAIN referencePositionAndOrientation' =
                   DOMAIN referencePositionAndOrientation \cup {LastMapping'.node_id}
            /\ referencePositionAndOrientation'[LastMapping'.node_id] =
                   [first |-> referenceBase, second |-> LastMapping'.is_reverse]
            /\ \A n \in DOMAIN referencePositionAndOrientation :
                   referencePositionAndOrientation'[n] = referencePositionAndOrientation[n]
            /\ VisitAdvances]_vars

C12_Witness ==
    /\ pc = "trace"
    /\ Len(path) = 3
    /\ path[1].node_id = path[3].node_id
    /\ path[1].is_reverse # path[3].is_reverse
    /\ referencePositionAndOrientation[path[3].node_id] =
           [first |-> 0, second |-> path[1].is_reverse]
    /\ referenceBase = TotalLength(path)
    /\ Len(refSeq) = referenceBase
    /\ Cardinality(DOMAIN nodesByReference) = 3

(***************************************************************************)
(* Properties of the zygosity walk.                                        *)
(***************************************************************************)
\* The walk the first callback makes over the interval of its anchors.
IntervalWalk == WalkFrom(IntervalStart, IntervalPastEnd)

\* Position p of the walk's k-th step ends where the next one starts.
StepEnd(steps, k) == steps[k].refPosition + Len(sequence[steps[k].refNode])

\* Every recorded call of the node is present, and there is one.
NodeFullyPresent ==
    LET vec == CallsAt(callsByNodeOffset, cur)
    IN  Len(vec) >= 1 /\ \A k \in 1..Len(vec) : vec[k].graphBasePresent

\* C13: for a node that passed the anchoring, orientation and ordering
\* checks, the walk over the reference interval ends: every lookup finds an
\* index entry, at exactly the walk's position; the position grows at every
\* step, each step starting where the one before ended, and the last step
\* ends at the out-anchor's coordinate; a fully present node whose interval
\* bases all have calls gets its record and the run goes on.  This holds on
\* paths that visit a node more than once.
C13_WalkEndsAtOutAnchor ==
    PassedChecks =>
        LET steps == IntervalWalk.steps
        IN  /\ IntervalWalk.ok
            /\ \A k \in 1..Len(steps) :
                  /\ steps[k].key = steps[k].refPosition
                  /\ StepEnd(steps, k) > steps[k].refPosition
                  /\ StepEnd(steps, k) <= IntervalPastEnd
                  /\ k < Len(steps) => steps[k + 1].refPosition = StepEnd(steps, k)
            /\ IF steps = <<>> THEN IntervalStart = IntervalPastEnd
               ELSE /\ steps[1].refPosition = IntervalStart
                    /\ StepEnd(steps, Len(steps)) = IntervalPastEnd
            /\ (NodeFullyPresent /\ IntervalCalled) => (pc = "bubble" /\ Len(out) = 1)

C13_Witness ==
    /\ PassedChecks
    /\ \E i, j \in 1..Len(path) : i < j /\ path[i].node_id = path[j].node_id
    /\ Len(IntervalWalk.steps) = 1
    /\ IntervalWalk.steps[1].refNode = InAnchor.node
    /\ pc = "bubble"
    /\ Len(out) = 1

(***************************************************************************)
(* Properties of the reads of the call table.                              *)
(***************************************************************************)
\* C14 as claimed: the call sequence of every reference node the second
\* callback looks at, and of every reference node the walk of the first
\* callback passes, is at least as long as the node's sequence.
C14_ReadsInBounds ==
    /\ PointRan =>
          Len(CallsAt(callsByNodeOffset, cur)) >= Len(sequence[cur])
    /\ (PassedChecks /\ NodeFullyPresent) => IntervalCalled

(***************************************************************************)
(* Properties of the replaced reference interval.                          *)
(***************************************************************************)
\* C15: of two placed nodes, the one with the greater coordinate starts at
\* or after the end of the other; so for a node that passed the ordering
\* check the interval start is not beyond its end, the callback stops the
\* run only on a read outside the call table, and the reference allele of
\* its record has the interval's length (one base for an empty interval).
C15_IntervalWellFormed ==
    /\ \A a, b \in DOMAIN referencePositionAndOrientation :
          referencePositionAndOrientation[b].first > referencePositionAndOrientation[a].first
          => referencePositionAndOrientation[a].first + Len(sequence[a])
                 <= referencePositionAndOrientation[b].first
    /\ PassedChecks =>
          /\ IntervalStart <= IntervalPastEnd
          /\ (NodeFullyPresent => IntervalCalled) => pc = "bubble"
          /\ out # <<>> =>
                Len(out[1].ref) = IF IntervalPastEnd = IntervalStart THEN 1
                                  ELSE IntervalPastEnd - IntervalStart

C15_Witness ==
    /\ PassedChecks
    /\ ReadInReverse
    /\ \E i, j \in 1..Len(path) : i < j /\ path[i].node_id = path[j].node_id
    /\ Len(sequence[InAnchor.node]) = 2
    /\ IntervalStart = IntervalPastEnd
    /\ pc = "bubble"
    /\ Len(out) = 1

(***************************************************************************)
(* Properties of the reference allele of a point record.                   *)
(***************************************************************************)
\* C16 as claimed: the reference allele of a point record is the node's own
\* base at the offset looked at, complemented when the node is reverse in
\* the reference.
C16_RefAlleleIsNodeBase ==
    (PointRan /\ out # <<>>) =>
        out[1].ref = <<InReferenceOrientation(sequence[cur][offset])>>

====
